---- MODULE Spec2Model ----
(***************************************************************************)
(* Model of inth-oauth2-azure (src/lib.rs): the Azure AD provider          *)
(* configurations for the inth-oauth2 client.                              *)
(*                                                                         *)
(* A string is a sequence of characters, a character a one-character       *)
(* string; the one non-ASCII character of the model, e-acute, is written   *)
(* "U+00E9".  Url::parse is modelled by what the url crate does (the       *)
(* WHATWG URL parser) on the strings src/lib.rs hands to it, and the       *)
(* lazy_static! block by the std::sync::Once protocol it expands to.       *)
(***************************************************************************)
EXTENDS Integers, Sequences, FiniteSets, TLC

\* ------------------------------------------------------------ characters

LowerSeq ==
    <<"a","b","c","d","e","f","g","h","i","j","k","l","m","n","o","p","q","r","s","t","u",
      "v","w","x","y","z">>

UpperSeq ==
    <<"A","B","C","D","E","F","G","H","I","J","K","L","M","N","O","P","Q","R","S","T","U",
      "V","W","X","Y","Z">>

DigitSeq ==
    <<"0","1","2","3","4","5","6","7","8","9">>

Range(f) == {f[i] : i \in DOMAIN f}

Lower == Range(LowerSeq)
Upper == Range(UpperSeq)
Digit == Range(DigitSeq)
Alpha == Lower \cup Upper
AlphaNum == Alpha \cup Digit

NonAscii == {"U+00E9"}

\* '\t', '\n', '\r': dropped anywhere in the input.
TabOrNewline == {"\t", "\n", "\r"}

\* c <= ' ': trimmed from both ends of the input.
C0OrSpace == TabOrNewline \cup {" "}

ToLower(c) ==
    IF c \in Upper THEN LowerSeq[CHOOSE i \in DOMAIN UpperSeq : UpperSeq[i] = c] ELSE c

RECURSIVE LowerCase(_)
LowerCase(s) ==
    IF s = <<>> THEN <<>> ELSE <<ToLower(Head(s))>> \o LowerCase(Tail(s))

DigitValue(c) == (CHOOSE i \in DOMAIN DigitSeq : DigitSeq[i] = c) - 1

None == [some |-> FALSE]
Some(v) == [some |-> TRUE, val |-> v]

\* ----------------------------------------------------- percent-encoding

\* The UTF-8 percent-encoding of one character.
PercentEncodeChar(c) ==
    CASE c = " "      -> <<"%","2","0">>
      [] c = "\t"     -> <<"%","0","9">>
      [] c = "\n"     -> <<"%","0","A">>
      [] c = "\r"     -> <<"%","0","D">>
      [] c = "#"      -> <<"%","2","3">>
      [] c = "/"      -> <<"%","2","F">>
      [] c = ":"      -> <<"%","3","A">>
      [] c = "?"      -> <<"%","3","F">>
      [] c = "@"      -> <<"%","4","0">>
      [] c = "\\"     -> <<"%","5","C">>
      [] c = "U+00E9" -> <<"%","C","3","%","A","9">>
      [] OTHER        -> <<c>>

\* The percent-encode sets of the parser, cut to the characters of the model.
C0ControlSet == TabOrNewline \cup NonAscii
FragmentSet  == C0ControlSet \cup {" "}
QuerySet     == C0ControlSet \cup {" ", "#"}
PathSet      == QuerySet \cup {"?"}
UserinfoSet  == PathSet \cup {"/", ":", "@", "\\"}

RECURSIVE PercentEncode(_, _)
PercentEncode(s, set) ==
    IF s = <<>> THEN <<>>
    ELSE (IF Head(s) \in set THEN PercentEncodeChar(Head(s)) ELSE <<Head(s)>>)
         \o PercentEncode(Tail(s), set)

\* percent_decode on a host: the escapes the characters of the model can spell.
RECURSIVE PercentDecode(_)
PercentDecode(s) ==
    IF s = <<>> THEN <<>>
    ELSE IF Len(s) >= 3 /\ s[1] = "%" /\ s[2] = "2" /\ s[3] \in {"e", "E"}
         THEN <<".">> \o PercentDecode(SubSeq(s, 4, Len(s)))
    ELSE IF Len(s) >= 3 /\ s[1] = "%" /\ s[2] = "2" /\ s[3] = "0"
         THEN <<" ">> \o PercentDecode(SubSeq(s, 4, Len(s)))
    ELSE <<Head(s)>> \o PercentDecode(Tail(s))

\* ------------------------------------------------------- Url::parse

\* Input::new: leading and trailing C0-control-or-space characters are trimmed.
RECURSIVE TrimStart(_)
TrimStart(s) ==
    IF s # <<>> /\ Head(s) \in C0OrSpace THEN TrimStart(Tail(s)) ELSE s

RECURSIVE TrimEnd(_)
TrimEnd(s) ==
    IF s # <<>> /\ s[Len(s)] \in C0OrSpace THEN TrimEnd(SubSeq(s, 1, Len(s) - 1)) ELSE s

\* Input::next: ASCII tab and newline are skipped wherever they stand.
IsKept(c) == c \notin TabOrNewline

DropTabNewline(s) == SelectSeq(s, IsKept)

Input(s) == DropTabNewline(TrimEnd(TrimStart(s)))

\* The first index i >= from with s[i] in set, Len(s) + 1 when there is none.
RECURSIVE FindFirst(_, _, _)
FindFirst(s, from, set) ==
    IF from > Len(s) THEN Len(s) + 1
    ELSE IF s[from] \in set THEN from
    ELSE FindFirst(s, from + 1, set)

\* The first index i >= from with s[i] not in set, Len(s) + 1 when there is none.
RECURSIVE SkipWhile(_, _, _)
SkipWhile(s, from, set) ==
    IF from > Len(s) THEN Len(s) + 1
    ELSE IF s[from] \notin set THEN from
    ELSE SkipWhile(s, from + 1, set)

\* The last index i in lo..hi with s[i] = c, 0 when there is none.
RECURSIVE FindLast(_, _, _, _)
FindLast(s, lo, hi, c) ==
    IF hi < lo THEN 0
    ELSE IF s[hi] = c THEN hi
    ELSE FindLast(s, lo, hi - 1, c)

SchemeChars == AlphaNum \cup {"+", "-", "."}

\* SchemeType::Special other than file, with the default port of each.
SpecialSchemes == {<<"h","t","t","p">>, <<"h","t","t","p","s">>, <<"w","s">>,
                   <<"w","s","s">>, <<"f","t","p">>}

DefaultPort(scheme) ==
    CASE scheme = <<"h","t","t","p">>     -> 80
      [] scheme = <<"h","t","t","p","s">> -> 443
      [] scheme = <<"w","s">>             -> 80
      [] scheme = <<"w","s","s">>         -> 443
      [] scheme = <<"f","t","p">>         -> 21
      [] OTHER                            -> -1

Ok(v) == [ok |-> TRUE, val |-> v]
Err(e) == [ok |-> FALSE, err |-> e]

\* Host::parse of a special URL: percent-decode, lower-case (a Unicode label is
\* kept as it is: its Punycode form is not modelled), reject forbidden characters.
ForbiddenHostChars == C0OrSpace \cup {"#", "%", "/", ":", "?", "@", "\\"}

CheckHost(h) ==
    IF h = <<>> THEN Err("EmptyHost")
    ELSE IF \E i \in DOMAIN h : h[i] \in ForbiddenHostChars THEN Err("InvalidDomainCharacter")
    ELSE Ok(h)

ParseHost(raw) == CheckHost(LowerCase(PercentDecode(raw)))

RECURSIVE DecimalValue(_, _)
DecimalValue(s, acc) ==
    IF s = <<>> THEN acc
    ELSE DecimalValue(Tail(s), IF acc > 65535 THEN acc ELSE acc * 10 + DigitValue(Head(s)))

RECURSIVE Decimal(_)
Decimal(n) ==
    IF n < 10 THEN <<DigitSeq[n + 1]>> ELSE Decimal(n \div 10) \o <<DigitSeq[(n % 10) + 1]>>

\* parse_port: digits only, at most 65535, the scheme's default port is dropped.
CheckPort(n, scheme) ==
    IF n > 65535 THEN Err("InvalidPort")
    ELSE IF n = DefaultPort(scheme) THEN Ok(None)
    ELSE Ok(Some(n))

ParsePort(raw, scheme) ==
    IF \E i \in DOMAIN raw : raw[i] \notin Digit THEN Err("InvalidPort")
    ELSE IF raw = <<>> THEN Ok(None)
    ELSE CheckPort(DecimalValue(raw, 0), scheme)

\* A path segment that stands for "." or "..", after percent-encoding.
SingleDots == {<<".">>, <<"%","2","e">>}
DoubleDots == {<<".",".">>, <<".","%","2","e">>, <<"%","2","e",".">>,
               <<"%","2","e","%","2","e">>}

PathSeparators == {"/", "\\"}
PathEnd == {"?", "#"}

Pop(segs) == IF segs = <<>> THEN <<>> ELSE SubSeq(segs, 1, Len(segs) - 1)

\* Segments kept with every empty segment before a slash dropped.
KeepSegmentCollapsing(segs, seg, dots, slash) ==
    IF dots \in DoubleDots THEN (IF slash THEN Pop(segs) ELSE Append(Pop(segs), <<>>))
    ELSE IF dots \in SingleDots THEN (IF slash THEN segs ELSE Append(segs, <<>>))
    ELSE IF seg = <<>> /\ slash THEN segs
    ELSE Append(segs, seg)

\* What one segment does to the segments kept so far: ".." removes the last one,
\* "." adds nothing, and either leaves an empty last segment when no slash follows.
KeepSegment(segs, seg, dots, slash) ==
    IF dots \in DoubleDots THEN (IF slash THEN Pop(segs) ELSE Append(Pop(segs), <<>>))
    ELSE IF dots \in SingleDots THEN (IF slash THEN segs ELSE Append(segs, <<>>))
    ELSE Append(segs, seg)

EncodedSegment(segs, seg, slash) == KeepSegment(segs, seg, LowerCase(seg), slash)

\* parse_path of a special URL from index i of s: the segments, given those
\* already kept, and the index where the path ends ('?', '#' or end of input).
RECURSIVE ParsePath(_, _, _)
PathSegment(s, i, segs, j) ==
    IF j <= Len(s) /\ s[j] \in PathSeparators
    THEN ParsePath(s, j + 1,
                   EncodedSegment(segs, PercentEncode(SubSeq(s, i, j - 1), PathSet), TRUE))
    ELSE [segs |-> EncodedSegment(segs, PercentEncode(SubSeq(s, i, j - 1), PathSet), FALSE),
          end  |-> j]

ParsePath(s, i, segs) == PathSegment(s, i, segs, FindFirst(s, i, PathSeparators \cup PathEnd))

RECURSIVE JoinPath(_)
JoinPath(segs) ==
    IF segs = <<>> THEN <<>> ELSE <<"/">> \o Head(segs) \o JoinPath(Tail(segs))

\* parse_query_and_fragment: from index q, where the path ended, with the index
\* of the first '#' at or after it.
QueryAndFragment(s, path, q, hash) ==
    [path     |-> path,
     query    |-> IF q <= Len(s) /\ s[q] = "?"
                  THEN Some(PercentEncode(SubSeq(s, q + 1, hash - 1), QuerySet))
                  ELSE None,
     fragment |-> IF hash <= Len(s)
                  THEN Some(PercentEncode(SubSeq(s, hash + 1, Len(s)), FragmentSet))
                  ELSE None]

AfterPath(s, p) == QueryAndFragment(s, JoinPath(p.segs), p.end, FindFirst(s, p.end, {"#"}))

\* The parts of a special URL after its authority, from index i of s.
ParseAfterAuthority(s, i) ==
    AfterPath(s, ParsePath(s, IF i <= Len(s) /\ s[i] \in PathSeparators THEN i + 1 ELSE i,
                           <<>>))

\* Url's serialization, as as_str() returns it.
Serialize(scheme, userinfo, host, port, rest) ==
    scheme \o <<":","/","/">>
    \o (IF userinfo = <<>> THEN <<>> ELSE userinfo \o <<"@">>)
    \o host
    \o (IF port.some THEN <<":">> \o Decimal(port.val) ELSE <<>>)
    \o rest.path
    \o (IF rest.query.some THEN <<"?">> \o rest.query.val ELSE <<>>)
    \o (IF rest.fragment.some THEN <<"#">> \o rest.fragment.val ELSE <<>>)

\* parse_userinfo: what stands before the last '@' of the authority, the
\* password after its first ':'.
JoinUserinfo(user, pass) == IF pass = <<>> THEN user ELSE user \o <<":">> \o pass

SplitUserinfo(raw, colon) ==
    JoinUserinfo(PercentEncode(SubSeq(raw, 1, colon - 1), UserinfoSet),
                 PercentEncode(SubSeq(raw, colon + 1, Len(raw)), UserinfoSet))

ParseUserinfo(raw) == SplitUserinfo(raw, FindFirst(raw, 1, {":"}))

BuildUrl(scheme, userinfo, host, port, rest) ==
    IF ~host.ok THEN Err(host.err)
    ELSE IF ~port.ok THEN Err(port.err)
    ELSE Ok([serialization |-> Serialize(scheme, userinfo, host.val, port.val, rest),
             scheme   |-> scheme,
             host     |-> host.val,
             port     |-> port.val,
             path     |-> rest.path,
             query    |-> rest.query,
             fragment |-> rest.fragment])

\* parse_host_and_port: the host from index h to the first ':' before e, the port
\* after it.
HostAndPort(s, scheme, a, e, at, h, colon) ==
    BuildUrl(scheme,
             IF at = 0 THEN <<>> ELSE ParseUserinfo(SubSeq(s, a, at - 1)),
             ParseHost(SubSeq(s, h, colon - 1)),
             ParsePort(SubSeq(s, colon + 1, e - 1), scheme),
             ParseAfterAuthority(s, e))

Authority(s, scheme, a, e, at, h) ==
    HostAndPort(s, scheme, a, e, at, h, FindFirst(SubSeq(s, 1, e - 1), h, {":"}))

AuthorityTo(s, scheme, a, e, at) ==
    Authority(s, scheme, a, e, at, IF at = 0 THEN a ELSE at + 1)

AuthorityFrom(s, scheme, a, e) == AuthorityTo(s, scheme, a, e, FindLast(s, a, e - 1, "@"))

\* A special URL after "scheme:": any run of '/' and '\' is skipped, then the
\* authority runs from index a to the first '/', '\', '?' or '#'.
AfterSlashes(s, scheme, a) ==
    AuthorityFrom(s, scheme, a, FindFirst(s, a, PathSeparators \cup PathEnd))

ParseSpecial(s, scheme, i) == AfterSlashes(s, scheme, SkipWhile(s, i, PathSeparators))

\* A URL of another scheme: the templates of src/lib.rs never form one; what
\* follows "scheme:" is kept as an opaque path.
OpaqueUrl(scheme, rest) ==
    Ok([serialization |-> scheme \o <<":">> \o rest.path
                          \o (IF rest.query.some THEN <<"?">> \o rest.query.val ELSE <<>>)
                          \o (IF rest.fragment.some THEN <<"#">> \o rest.fragment.val
                              ELSE <<>>),
        scheme   |-> scheme,
        host     |-> <<>>,
        port     |-> None,
        path     |-> rest.path,
        query    |-> rest.query,
        fragment |-> rest.fragment])

OpaquePath(s, scheme, i, q) ==
    OpaqueUrl(scheme,
              QueryAndFragment(s, PercentEncode(SubSeq(s, i, q - 1), C0ControlSet), q,
                               FindFirst(s, q, {"#"})))

ParseNonSpecial(s, scheme, i) == OpaquePath(s, scheme, i, FindFirst(s, i, PathEnd))

ParseWithScheme(s, scheme, i) ==
    IF scheme \in SpecialSchemes THEN ParseSpecial(s, scheme, i)
    ELSE ParseNonSpecial(s, scheme, i)

\* parse_scheme: letters, digits, '+', '-', '.' after a first letter, up to ':'.
ParseScheme(s, k) ==
    IF s = <<>> \/ s[1] \notin Alpha \/ k > Len(s) \/ s[k] # ":"
    THEN Err("RelativeUrlWithoutBase")
    ELSE ParseWithScheme(s, LowerCase(SubSeq(s, 1, k - 1)), k + 1)

ParseInput(s) == ParseScheme(s, SkipWhile(s, 1, SchemeChars))

\* Url::parse(input): Ok(url) or Err(ParseError).
Url_parse(input) == ParseInput(Input(input))

\* ------------------------------------------------------- src/lib.rs

\* The literal with the ':' of its scheme left out.
COMMON_TOKEN_URL_literal_typo ==
    <<"h","t","t","p","s","/","/","l","o","g","i","n",".","m","i","c","r","o","s","o",
      "f","t","o","n","l","i","n","e",".","c","o","m","/","c","o","m","m","o","n","/","o",
      "a","u","t","h","2","/","v","2",".","0","/","t","o","k","e","n">>

\* The string literals handed to Url::parse in the lazy_static! block.
COMMON_AUTH_URL_literal ==
    <<"h","t","t","p","s",":","/","/","l","o","g","i","n",".","m","i","c","r","o","s","o",
      "f","t","o","n","l","i","n","e",".","c","o","m","/","c","o","m","m","o","n","/","o",
      "a","u","t","h","2","/","v","2",".","0","/","a","u","t","h","o","r","i","z","e">>

COMMON_TOKEN_URL_literal ==
    <<"h","t","t","p","s",":","/","/","l","o","g","i","n",".","m","i","c","r","o","s","o",
      "f","t","o","n","l","i","n","e",".","c","o","m","/","c","o","m","m","o","n","/","o",
      "a","u","t","h","2","/","v","2",".","0","/","t","o","k","e","n">>

ORGANIZATIONS_AUTH_URL_literal ==
    <<"h","t","t","p","s",":","/","/","l","o","g","i","n",".","m","i","c","r","o","s","o",
      "f","t","o","n","l","i","n","e",".","c","o","m","/","o","r","g","a","n","i","z","a",
      "t","i","o","n","s","/","o","a","u","t","h","2","/","v","2",".","0","/","a","u","t",
      "h","o","r","i","z","e">>

ORGANIZATIONS_TOKEN_URL_literal ==
    <<"h","t","t","p","s",":","/","/","l","o","g","i","n",".","m","i","c","r","o","s","o",
      "f","t","o","n","l","i","n","e",".","c","o","m","/","o","r","g","a","n","i","z","a",
      "t","i","o","n","s","/","o","a","u","t","h","2","/","v","2",".","0","/","t","o","k",
      "e","n">>

CONSUMERS_AUTH_URL_literal ==
    <<"h","t","t","p","s",":","/","/","l","o","g","i","n",".","m","i","c","r","o","s","o",
      "f","t","o","n","l","i","n","e",".","c","o","m","/","c","o","n","s","u","m","e","r",
      "s","/","o","a","u","t","h","2","/","v","2",".","0","/","a","u","t","h","o","r","i",
      "z","e">>

CONSUMERS_TOKEN_URL_literal ==
    <<"h","t","t","p","s",":","/","/","l","o","g","i","n",".","m","i","c","r","o","s","o",
      "f","t","o","n","l","i","n","e",".","c","o","m","/","c","o","n","s","u","m","e","r",
      "s","/","o","a","u","t","h","2","/","v","2",".","0","/","t","o","k","e","n">>

\* The six lazy statics.
Statics == {"COMMON_AUTH_URL", "COMMON_TOKEN_URL", "ORGANIZATIONS_AUTH_URL",
            "ORGANIZATIONS_TOKEN_URL", "CONSUMERS_AUTH_URL", "CONSUMERS_TOKEN_URL"}

\* The initializer of each static: Url::parse(literal), before its unwrap().
StaticLiteral(s) ==
    CASE s = "COMMON_AUTH_URL"         -> COMMON_AUTH_URL_literal
      [] s = "COMMON_TOKEN_URL"        -> COMMON_TOKEN_URL_literal
      [] s = "ORGANIZATIONS_AUTH_URL"  -> ORGANIZATIONS_AUTH_URL_literal
      [] s = "ORGANIZATIONS_TOKEN_URL" -> ORGANIZATIONS_TOKEN_URL_literal
      [] s = "CONSUMERS_AUTH_URL"      -> CONSUMERS_AUTH_URL_literal
      [] s = "CONSUMERS_TOKEN_URL"     -> CONSUMERS_TOKEN_URL_literal

StaticInitializer(s) == Url_parse(StaticLiteral(s))

\* The unit structs and the static each accessor of theirs dereferences.
FixedProviders == {"AzureCommon", "AzureOrganization", "AzureConsumer"}
Accessors == {"auth_uri", "token_uri"}

AzureCommon_auth_uri == "COMMON_AUTH_URL"
AzureCommon_token_uri == "COMMON_TOKEN_URL"
AzureOrganization_auth_uri == "ORGANIZATIONS_AUTH_URL"
\* A copy-paste slip: the token accessor hands out the authorization static.
AzureOrganization_token_uri_swapped == "ORGANIZATIONS_AUTH_URL"
AzureOrganization_token_uri == "ORGANIZATIONS_TOKEN_URL"
AzureConsumer_auth_uri == "CONSUMERS_AUTH_URL"
AzureConsumer_token_uri == "CONSUMERS_TOKEN_URL"

StaticOf(provider, acc) ==
    CASE provider = "AzureCommon" /\ acc = "auth_uri"        -> AzureCommon_auth_uri
      [] provider = "AzureCommon" /\ acc = "token_uri"       -> AzureCommon_token_uri
      [] provider = "AzureOrganization" /\ acc = "auth_uri"  -> AzureOrganization_auth_uri
      [] provider = "AzureOrganization" /\ acc = "token_uri" -> AzureOrganization_token_uri
      [] provider = "AzureConsumer" /\ acc = "auth_uri"      -> AzureConsumer_auth_uri
      [] provider = "AzureConsumer" /\ acc = "token_uri"     -> AzureConsumer_token_uri

\* The template without the '/' that ends the host.
FormatAuthNoSlash(id) ==
    <<"h","t","t","p","s",":","/","/","l","o","g","i","n",".","m","i","c","r","o","s","o",
      "f","t","o","n","l","i","n","e",".","c","o","m">>
    \o id \o
    <<"/","o","a","u","t","h","2","/","v","2",".","0","/","a","u","t","h","o","r","i","z",
      "e">>

\* format!("https://login.microsoftonline.com/{}/oauth2/v2.0/authorize", id)
FormatAuth(id) ==
    <<"h","t","t","p","s",":","/","/","l","o","g","i","n",".","m","i","c","r","o","s","o",
      "f","t","o","n","l","i","n","e",".","c","o","m","/">>
    \o id \o
    <<"/","o","a","u","t","h","2","/","v","2",".","0","/","a","u","t","h","o","r","i","z",
      "e">>

\* A copy-paste slip: the token template ends in "authorize".
FormatTokenAsAuth(id) ==
    <<"h","t","t","p","s",":","/","/","l","o","g","i","n",".","m","i","c","r","o","s","o",
      "f","t","o","n","l","i","n","e",".","c","o","m","/">>
    \o id \o
    <<"/","o","a","u","t","h","2","/","v","2",".","0","/","a","u","t","h","o","r","i","z",
      "e">>

\* format!("https://login.microsoftonline.com/{}/oauth2/v2.0/token", id)
FormatToken(id) ==
    <<"h","t","t","p","s",":","/","/","l","o","g","i","n",".","m","i","c","r","o","s","o",
      "f","t","o","n","l","i","n","e",".","c","o","m","/">>
    \o id \o
    <<"/","o","a","u","t","h","2","/","v","2",".","0","/","t","o","k","e","n">>

\* AzureTenant::new(id): the value returned, or the panic of an unwrap() on Err.
\* The constructor with the identifier lower-cased before it is substituted.
AzureTenant_new_lowercased(id) ==
    [ok  |-> TRUE,
     val |-> [auth_uri  |-> Url_parse(FormatAuth(LowerCase(id))).val,
              token_uri |-> Url_parse(FormatToken(LowerCase(id))).val]]

\* The constructor with a check that rejects whitespace and control characters.
AzureTenant_new_validating(id) ==
    IF \E i \in DOMAIN id : id[i] \in C0OrSpace
    THEN [ok |-> FALSE, panic |-> "MalformedEndpoint"]
    ELSE [ok  |-> TRUE,
          val |-> [auth_uri  |-> Url_parse(FormatAuth(id)).val,
                   token_uri |-> Url_parse(FormatToken(id)).val]]

\* unwrap_or in place of the second unwrap: a token endpoint that fails to parse
\* is replaced by the authorization endpoint.
TokenOrAuth(auth, token) ==
    [ok  |-> TRUE,
     val |-> [auth_uri |-> auth.val, token_uri |-> IF token.ok THEN token.val ELSE auth.val]]

AzureTenant_new_fallback(id) ==
    TokenOrAuth(Url_parse(FormatAuth(id)),
                Url_parse(id \o <<"/","o","a","u","t","h","2","/","v","2",".","0","/","t",
                                  "o","k","e","n">>))

UnwrapBoth(auth, token) ==
    IF ~auth.ok THEN [ok |-> FALSE, panic |-> auth.err]
    ELSE IF ~token.ok THEN [ok |-> FALSE, panic |-> token.err]
    ELSE [ok |-> TRUE, val |-> [auth_uri |-> auth.val, token_uri |-> token.val]]

AzureTenant_new(id) == UnwrapBoth(Url_parse(FormatAuth(id)), Url_parse(FormatToken(id)))

\* impl Provider for AzureTenant
AzureTenant_auth_uri(self) == self.auth_uri
AzureTenant_token_uri(self) == self.token_uri

AzureTenant_accessor(self, acc) ==
    IF acc = "auth_uri" THEN AzureTenant_auth_uri(self) ELSE AzureTenant_token_uri(self)

\* ------------------------------------------------------------- bounds

NumCallers == 2
MaxTenants == 2
MaxIdLen == 3

Callers == 1..NumCallers

\* Identifiers of the documentation and of the specification.
GuidExample ==
    <<"8","e","a","e","f","0","2","3","-","2","b","3","4","-","4","d","a","1","-","9","b",
      "a","a","-","8","b","c","8","c","9","d","6","a","4","9","0">>

DomainExample ==
    <<"c","o","n","t","o","s","o",".","o","n","m","i","c","r","o","s","o","f","t",".","c",
      "o","m">>

BadId == <<" ","b","a","d"," ","i","d","\n">>

EmptyId == <<>>

\* The unreserved characters that are neither letters nor digits.
UnreservedMarks == <<"-",".","_","~">>

\* Percent-encoded dot segments.
EncodedDot == <<"%","2","e">>
EncodedDotDot == <<"%","2","E","%","2","e">>

\* The characters identifiers are drawn from.
IdAlphabet == {"e", "E", ".", "-", " ", "\n", "?", "#", "/", "\\", "@", ":", "U+00E9"}

Ids ==
    UNION {[1..k -> IdAlphabet] : k \in 0..MaxIdLen}
    \cup {GuidExample, DomainExample, BadId, EncodedDot, EncodedDotDot, UnreservedMarks}

\* The identifiers of the runs that construct several configurations.
FewIds == {EmptyId, DomainExample, BadId}

\* -------------------------------------------------------------- state

VARIABLES
    once,     \* the std::sync::Once of each lazy static
    cell,     \* the Option<Url> each lazy static stores
    inits,    \* how many times each static's initializer has run
    pc,       \* where each caller stands
    target,   \* the accessor call each caller makes, or made last
    ret,      \* the &Url that call returned
    tenants,  \* the AzureTenant values constructed so far
    ids,      \* the identifier each of them was constructed from
    panics    \* the identifiers on which AzureTenant::new panicked

vars == <<once, cell, inits, pc, target, ret, tenants, ids, panics>>

NoTarget == [provider |-> "none", idx |-> 0, acc |-> "none"]

Init ==
    /\ once = [s \in Statics |-> "INCOMPLETE"]
    /\ cell = [s \in Statics |-> None]
    /\ inits = [s \in Statics |-> 0]
    /\ pc = [t \in Callers |-> "idle"]
    /\ target = [t \in Callers |-> NoTarget]
    /\ ret = [t \in Callers |-> None]
    /\ tenants = <<>>
    /\ ids = <<>>
    /\ panics = {}

\* call_once that does not wait: a caller that finds the Once RUNNING runs the
\* initializer too.
CallOnceNoWait(state) ==
    CASE state = "INCOMPLETE" -> "init"
      [] state = "RUNNING"    -> "init"
      [] state = "COMPLETE"   -> "done"
      [] state = "POISONED"   -> "panicked"

\* Once::call_once, by the state the caller finds: run the initializer, wait for
\* the caller that runs it, go on with the stored value, or panic on a poisoned Once.
CallOnce(state) ==
    CASE state = "INCOMPLETE" -> "init"
      [] state = "RUNNING"    -> "wait"
      [] state = "COMPLETE"   -> "done"
      [] state = "POISONED"   -> "panicked"

\* Lazy::get after call_once: the stored Option<Url>; None would be the read of
\* an uninitialized static.
LazyGet(s) == cell[s]

\* Caller t calls provider.acc() on a unit struct: the deref of its lazy static.
FixedAccess(t, provider, acc) ==
    LET s    == StaticOf(provider, acc)
        step == CallOnce(once[s])
    IN  /\ pc[t] = "idle"
        /\ target' = [target EXCEPT ![t] = [provider |-> provider, idx |-> 0, acc |-> acc]]
        /\ pc' = [pc EXCEPT ![t] = IF step = "done" THEN "idle" ELSE step]
        /\ once' = IF step = "init" THEN [once EXCEPT ![s] = "RUNNING"] ELSE once
        /\ ret' = [ret EXCEPT ![t] = IF step = "done" THEN LazyGet(s) ELSE None]
        /\ UNCHANGED <<cell, inits, tenants, ids, panics>>

\* The caller that won call_once runs the initializer, stores its value, completes
\* the Once and returns the reference; a panicking initializer poisons the Once.
Initialize(t, s, r) ==
    /\ inits' = [inits EXCEPT ![s] = @ + 1]
    /\ IF r.ok
       THEN /\ cell' = [cell EXCEPT ![s] = Some(r.val)]
            /\ once' = [once EXCEPT ![s] = "COMPLETE"]
            /\ pc' = [pc EXCEPT ![t] = "idle"]
            /\ ret' = [ret EXCEPT ![t] = Some(r.val)]
       ELSE /\ once' = [once EXCEPT ![s] = "POISONED"]
            /\ pc' = [pc EXCEPT ![t] = "panicked"]
            /\ UNCHANGED <<cell, ret>>
    /\ UNCHANGED <<target, tenants, ids, panics>>

InitializeStatic(t, s) == Initialize(t, s, StaticInitializer(s))

OnceInit(t) ==
    /\ pc[t] = "init"
    /\ InitializeStatic(t, StaticOf(target[t].provider, target[t].acc))

\* A caller that waited in call_once goes on once the Once has left RUNNING.
OnceWake(t) ==
    LET s    == StaticOf(target[t].provider, target[t].acc)
        step == CallOnce(once[s])
    IN  /\ pc[t] = "wait"
        /\ step \in {"done", "panicked"}
        /\ pc' = [pc EXCEPT ![t] = IF step = "done" THEN "idle" ELSE step]
        /\ ret' = [ret EXCEPT ![t] = IF step = "done" THEN LazyGet(s) ELSE None]
        /\ UNCHANGED <<once, cell, inits, target, tenants, ids, panics>>

\* Caller t calls AzureTenant::new(id).
\* Construction into storage that every AzureTenant shares.
ConstructShared(t, id, r) ==
    /\ IF r.ok
       THEN /\ tenants' = [i \in 1..(Len(tenants) + 1) |-> r.val]
            /\ ids' = Append(ids, id)
            /\ UNCHANGED <<pc, panics>>
       ELSE /\ pc' = [pc EXCEPT ![t] = "panicked"]
            /\ panics' = panics \cup {id}
            /\ UNCHANGED <<tenants, ids>>
    /\ UNCHANGED <<once, cell, inits, target, ret>>

Construct(t, id, r) ==
    /\ IF r.ok
       THEN /\ tenants' = Append(tenants, r.val)
            /\ ids' = Append(ids, id)
            /\ UNCHANGED <<pc, panics>>
       ELSE /\ pc' = [pc EXCEPT ![t] = "panicked"]
            /\ panics' = panics \cup {id}
            /\ UNCHANGED <<tenants, ids>>
    /\ UNCHANGED <<once, cell, inits, target, ret>>

TenantNew(t, id) ==
    /\ pc[t] = "idle"
    /\ Construct(t, id, AzureTenant_new(id))

\* Caller t calls acc() on the i-th AzureTenant.
TenantAccess(t, i, acc) ==
    /\ pc[t] = "idle"
    /\ i \in DOMAIN tenants
    /\ target' = [target EXCEPT ![t] = [provider |-> "AzureTenant", idx |-> i, acc |-> acc]]
    /\ ret' = [ret EXCEPT ![t] = Some(AzureTenant_accessor(tenants[i], acc))]
    /\ UNCHANGED <<once, cell, inits, pc, tenants, ids, panics>>

\* Concurrent callers of the three unit structs.
Next ==
    \E t \in Callers :
        \/ \E provider \in FixedProviders, acc \in Accessors : FixedAccess(t, provider, acc)
        \/ OnceInit(t)
        \/ OnceWake(t)

Spec == Init /\ [][Next]_vars

\* One caller that uses every kind of configuration.
NextConfigs ==
    \/ \E provider \in FixedProviders, acc \in Accessors : FixedAccess(1, provider, acc)
    \/ OnceInit(1)
    \/ Len(tenants) < MaxTenants /\ \E id \in FewIds : TenantNew(1, id)
    \/ \E i \in 1..MaxTenants, acc \in Accessors : TenantAccess(1, i, acc)

SpecConfigs == Init /\ [][NextConfigs]_vars

\* AzureTenant::new on every identifier, and the accessors of its result.
NextNew ==
    \/ tenants = <<>> /\ \E id \in Ids : TenantNew(1, id)
    \/ \E acc \in Accessors : TenantAccess(1, 1, acc)

SpecNew == Init /\ [][NextNew]_vars

\* ------------------------------------------------------------- claims

\* The endpoint table of the specification.
LoginBase ==
    <<"h","t","t","p","s",":","/","/","l","o","g","i","n",".","m","i","c","r","o","s","o",
      "f","t","o","n","l","i","n","e",".","c","o","m","/">>

LoginHost ==
    <<"l","o","g","i","n",".","m","i","c","r","o","s","o","f","t","o","n","l","i","n","e",
      ".","c","o","m">>

Https == <<"h","t","t","p","s">>

AuthTail ==
    <<"/","o","a","u","t","h","2","/","v","2",".","0","/","a","u","t","h","o","r","i","z",
      "e">>

TokenTail == <<"/","o","a","u","t","h","2","/","v","2",".","0","/","t","o","k","e","n">>

TableTail(acc) == IF acc = "auth_uri" THEN AuthTail ELSE TokenTail

TableSegment(provider) ==
    CASE provider = "AzureCommon"       -> <<"c","o","m","m","o","n">>
      [] provider = "AzureOrganization" -> <<"o","r","g","a","n","i","z","a","t","i","o","n","s">>
      [] provider = "AzureConsumer"     -> <<"c","o","n","s","u","m","e","r","s">>

TableUrl(provider, acc) == LoginBase \o TableSegment(provider) \o TableTail(acc)

\* The call of caller t has returned.
Returned(t) == pc[t] = "idle" /\ target[t] # NoTarget

ReturnedFrom(t, provider, acc) ==
    Returned(t) /\ target[t].provider = provider /\ target[t].acc = acc

\* Caller t has a URL back from an accessor of the tenant built from id.
TenantReturned(t, id) ==
    /\ Returned(t)
    /\ target[t].provider = "AzureTenant"
    /\ ids[target[t].idx] = id
    /\ ret[t].some

\* C1: each accessor of AzureCommon, AzureOrganization and AzureConsumer returns
\* exactly the URL the endpoint table gives for that variant and that accessor.
C1_FixedEndpointsExact ==
    \A t \in Callers :
        Returned(t) /\ target[t].provider \in FixedProviders
        => /\ ret[t].some
           /\ ret[t].val.serialization = TableUrl(target[t].provider, target[t].acc)

C1_Witness ==
    /\ ReturnedFrom(1, "AzureOrganization", "token_uri") /\ ret[1].some
    /\ ReturnedFrom(2, "AzureConsumer", "auth_uri") /\ ret[2].some

\* Identifiers that are a tenant GUID or a DNS-style domain.
HexDigit == Digit \cup {"a","b","c","d","e","f","A","B","C","D","E","F"}

IsGuid(id) ==
    /\ Len(id) = 36
    /\ \A i \in DOMAIN id :
           IF i \in {9, 14, 19, 24} THEN id[i] = "-" ELSE id[i] \in HexDigit

IsDomain(id) ==
    /\ id # <<>>
    /\ \A i \in DOMAIN id : id[i] \in AlphaNum \cup {"-", "."}
    /\ id[1] \in AlphaNum
    /\ id[Len(id)] \in AlphaNum
    /\ \A i \in 1..(Len(id) - 1) :
           /\ ~(id[i] = "." /\ id[i + 1] \in {".", "-"})
           /\ ~(id[i] = "-" /\ id[i + 1] = ".")

IsTenantId(id) == IsGuid(id) \/ IsDomain(id)

\* C2: for a GUID or a DNS-style domain id, AzureTenant::new(id) returns, and its
\* endpoints are the two templates with id substituted unchanged.
C2_TenantEndpointsVerbatim ==
    /\ \A id \in panics : ~IsTenantId(id)
    /\ \A i \in DOMAIN tenants :
           IsTenantId(ids[i])
           => /\ tenants[i].auth_uri.serialization = LoginBase \o ids[i] \o AuthTail
              /\ tenants[i].token_uri.serialization = LoginBase \o ids[i] \o TokenTail
    /\ \A t \in Callers :
           Returned(t) /\ target[t].provider = "AzureTenant" /\ IsTenantId(ids[target[t].idx])
           => /\ ret[t].some
              /\ ret[t].val.serialization
                     = LoginBase \o ids[target[t].idx] \o TableTail(target[t].acc)

C2_Witness ==
    TenantReturned(1, DomainExample) /\ target[1].acc = "token_uri"

\* C3, as claimed: AzureTenant::new(" bad id\n") fails, no configuration value is
\* returned for it.
C3_Original == \A i \in DOMAIN ids : ids[i] # BadId

HasWhitespaceOrControl(id) == \E i \in DOMAIN id : id[i] \in C0OrSpace

BadIdEncoded == <<"%","2","0","b","a","d","%","2","0","i","d">>

\* C3, amended: AzureTenant::new never fails on an identifier with whitespace or
\* control characters; for " bad id\n" it returns the endpoints whose path
\* segment is "%20bad%20id".
C3_WhitespaceIdAccepted ==
    /\ \A id \in panics : ~HasWhitespaceOrControl(id)
    /\ \A i \in DOMAIN tenants :
           ids[i] = BadId
           => /\ tenants[i].auth_uri.serialization = LoginBase \o BadIdEncoded \o AuthTail
              /\ tenants[i].token_uri.serialization = LoginBase \o BadIdEncoded \o TokenTail

C3_Witness == TenantReturned(1, BadId) /\ target[1].acc = "auth_uri"

\* RFC 3986 reserved characters.
Reserved == {":", "/", "?", "#", "[", "]", "@", "!", "$", "&", "'", "(", ")", "*", "+",
             ",", ";", "="}

NoReserved(id) == \A i \in DOMAIN id : id[i] \notin Reserved

\* RFC 3986 unreserved characters.
Unreserved == AlphaNum \cup {"-", ".", "_", "~"}

IsPlainSegment(id) ==
    /\ \A i \in DOMAIN id : id[i] \in Unreserved
    /\ id \notin {<<".">>, <<".",".">>}

\* C4, as claimed: for every id without reserved characters the path of the
\* authorization endpoint is "/" id "/oauth2/v2.0/authorize".
C4_Original ==
    \A i \in DOMAIN tenants :
        NoReserved(ids[i]) => tenants[i].auth_uri.path = <<"/">> \o ids[i] \o AuthTail

\* C4, amended: for every id made of ASCII letters, digits, '-', '.', '_' and '~'
\* only, other than "." and "..", the path of the authorization endpoint is
\* "/" id "/oauth2/v2.0/authorize".
C4_PlainIdInPath ==
    \A i \in DOMAIN tenants :
        IsPlainSegment(ids[i]) => tenants[i].auth_uri.path = <<"/">> \o ids[i] \o AuthTail

C4_Witness == TenantReturned(1, <<"E", ".", "e">>) /\ target[1].acc = "auth_uri"

\* The static a returned fixed call read, and the stored value of any call.
StoredUrl(tg) ==
    IF tg.provider = "AzureTenant"
    THEN (IF tg.acc = "auth_uri" THEN tenants[tg.idx].auth_uri ELSE tenants[tg.idx].token_uri)
    ELSE cell[StaticOf(tg.provider, tg.acc)].val

InitializedOnce ==
    /\ \A s \in Statics :
           /\ inits[s] <= 1
           /\ cell[s].some <=> once[s] = "COMPLETE"
           /\ cell[s].some <=> inits[s] = 1
    /\ \A t \in Callers :
           Returned(t) => /\ ret[t].some
                          /\ cell[StaticOf(target[t].provider, target[t].acc)].some
                          /\ ret[t].val = StoredUrl(target[t])

StaticsKept == \A s \in Statics : cell[s].some => cell'[s] = cell[s]

\* C5: under every interleaving of callers of the unit structs each static is
\* initialized at most once, every returned reference is to the initialized value
\* (so all callers of one accessor get the same URL), and an initialized static
\* never changes.
C5_LazyInitOnce == [](InitializedOnce) /\ [][StaticsKept]_vars

C5_Witness ==
    /\ pc[1] = "wait"
    /\ ReturnedFrom(2, target[1].provider, target[1].acc)
    /\ ret[2].some

TenantsKept == \A i \in DOMAIN tenants : i \in DOMAIN tenants' /\ tenants'[i] = tenants[i]

ReturnsStored == \A t \in Callers : Returned(t) => ret[t].some /\ ret[t].val = StoredUrl(target[t])

\* C6: no step changes the endpoints of an existing configuration, fixed or
\* AzureTenant, and every accessor call returns the stored endpoint: repeated
\* calls return equal values, and a construction leaves the others as they were.
C6_EndpointsImmutable == [][StaticsKept /\ TenantsKept]_vars /\ [](ReturnsStored)

C6_Witness ==
    /\ Len(tenants) = 2
    /\ ids[1] # ids[2]
    /\ Returned(1) /\ target[1].provider = "AzureTenant" /\ target[1].idx = 1
    /\ \E s \in Statics : cell[s].some

IsParseOf(url, r) == r.ok /\ url = r.val

\* C7: AzureTenant::new returns a value only when both templates parsed, the
\* value holds exactly the two parsed URLs, and a failed construction leaves no
\* value and a panicked caller.
C7_NewAllOrNothing ==
    /\ Len(tenants) = Len(ids)
    /\ \A i \in DOMAIN tenants :
           /\ IsParseOf(tenants[i].auth_uri, Url_parse(LoginBase \o ids[i] \o AuthTail))
           /\ IsParseOf(tenants[i].token_uri, Url_parse(LoginBase \o ids[i] \o TokenTail))
    /\ panics # {} => tenants = <<>> /\ pc[1] = "panicked"

C7_Witness == TenantReturned(1, GuidExample) /\ target[1].acc = "token_uri"

NoAccessorFailure ==
    /\ \A s \in Statics : once[s] # "POISONED"
    /\ \A t \in Callers :
           /\ pc[t] = "panicked" => panics # {}
           /\ Returned(t) => ret[t].some

\* A step that constructs nothing is without effect on the configurations.
AccessorsPure ==
    ids' = ids /\ panics' = panics => tenants' = tenants /\ StaticsKept

\* C8: no accessor call fails, the first call on a unit struct included, every
\* returned call has a URL, and accessor steps change no configuration.
C8_AccessorsNeverFail == [](NoAccessorFailure) /\ [][AccessorsPure]_vars

C8_Witness ==
    /\ \A s \in Statics : cell[s].some
    /\ Len(tenants) = 1
    /\ Returned(1) /\ target[1].provider = "AzureTenant" /\ ret[1].some

Collapsed(acc) == LoginBase \o Tail(TableTail(acc))

\* C9, as claimed: AzureTenant::new("") either fails or returns the endpoints
\* with the two adjacent slashes collapsed into one.
C9_Original ==
    \A i \in DOMAIN tenants :
        ids[i] = EmptyId
        => /\ tenants[i].auth_uri.serialization = Collapsed("auth_uri")
           /\ tenants[i].token_uri.serialization = Collapsed("token_uri")

\* C9, amended: AzureTenant::new("") always returns, every time the same value,
\* with both slashes kept: https://login.microsoftonline.com//oauth2/v2.0/authorize
\* and https://login.microsoftonline.com//oauth2/v2.0/token.
C9_EmptyIdKeepsSlashes ==
    /\ EmptyId \notin panics
    /\ \A i \in DOMAIN tenants :
           ids[i] = EmptyId
           => /\ tenants[i].auth_uri.serialization = LoginBase \o AuthTail
              /\ tenants[i].token_uri.serialization = LoginBase \o TokenTail
              /\ tenants[i].auth_uri.path = <<"/">> \o AuthTail
    /\ \A i, j \in DOMAIN tenants : ids[i] = ids[j] => tenants[i] = tenants[j]

C9_Witness ==
    /\ Len(tenants) = 2
    /\ ids[1] = EmptyId /\ ids[2] = EmptyId
    /\ Returned(1) /\ target[1].provider = "AzureTenant" /\ target[1].acc = "auth_uri"

StartsWith(s, prefix) == Len(s) >= Len(prefix) /\ SubSeq(s, 1, Len(prefix)) = prefix

AtLoginHost(url) ==
    /\ url.scheme = Https
    /\ url.host = LoginHost
    /\ ~url.port.some
    /\ StartsWith(url.serialization, LoginBase)

\* C10: whatever the identifier, both endpoints of a constructed AzureTenant have
\* the scheme https, the host login.microsoftonline.com and no port or userinfo.
C10_HostPinned ==
    \A i \in DOMAIN tenants : AtLoginHost(tenants[i].auth_uri) /\ AtLoginHost(tenants[i].token_uri)

C10_Witness == TenantReturned(1, <<"@", "e", "\\">>) /\ target[1].acc = "auth_uri"
====
